---- MODULE Spec2Model ----
(***************************************************************************)
(* A model of the feed-ingestion engine of src/crawlers/rss_crawler.py     *)
(* (class RSSNewsCrawler): the feed registry and its validation, the       *)
(* per-entry filter, the concurrent feed tasks with their retry loop, the  *)
(* metrics records and the merge of a crawl cycle.                         *)
(*                                                                         *)
(* crawl_rss_feeds is modelled with the try/except around future.result()  *)
(* inside the as_completed loop, as its indentation of lines 430-438       *)
(* intends.                                                                *)
(***************************************************************************)
EXTENDS Integers, Sequences, FiniteSets, TLC

(***************************************************************************)
(* Text.  Python strings are TLA+ strings; characters outside ASCII are    *)
(* written U+XXXX.                                                         *)
(***************************************************************************)
CharAt(s, i) == SubSeq(s, i, i)

\* The ASCII capitals and their small letters
LowerOf ==
    [A |-> "a", B |-> "b", C |-> "c", D |-> "d", E |-> "e", F |-> "f",
     G |-> "g", H |-> "h", I |-> "i", J |-> "j", K |-> "k", L |-> "l",
     M |-> "m", N |-> "n", O |-> "o", P |-> "p", Q |-> "q", R |-> "r",
     S |-> "s", T |-> "t", U |-> "u", V |-> "v", W |-> "w", X |-> "x",
     Y |-> "y", Z |-> "z"]

UpperChars == DOMAIN LowerOf

LowerChar(c) == IF c \in UpperChars THEN LowerOf[c] ELSE c

\* str.lower()
RECURSIVE LowerFrom(_, _)
LowerFrom(s, i) ==
    IF i > Len(s) THEN "" ELSE LowerChar(CharAt(s, i)) \o LowerFrom(s, i + 1)

lower(s) == LowerFrom(s, 1)

\* str.strip(): leading and trailing blanks removed
strip(s) ==
    LET inked == {i \in 1..Len(s) : CharAt(s, i) # " "}
    IN  IF inked = {} THEN ""
        ELSE SubSeq(s, CHOOSE i \in inked : \A j \in inked : i <= j,
                       CHOOSE i \in inked : \A j \in inked : j <= i)

\* Python's `kw in text`
Contains(text, kw) ==
    \E i \in 1..(Len(text) - Len(kw) + 1) : SubSeq(text, i, i + Len(kw) - 1) = kw

\* Characters of an isoformat() string in code point order; Ord is the rank.
AsciiOrder == "+-.0123456789:T"

Ord(c) == CHOOSE i \in 1..Len(AsciiOrder) : CharAt(AsciiOrder, i) = c

\* Python's a < b on strings: at the first position where they differ the
\* code point of a is smaller, or a is a proper prefix of b
StrLess(a, b) ==
    \E i \in 1..Len(b) :
        /\ i <= Len(a) + 1
        /\ SubSeq(a, 1, i - 1) = SubSeq(b, 1, i - 1)
        /\ \/ i = Len(a) + 1
           \/ Ord(CharAt(a, i)) < Ord(CharAt(b, i))

(***************************************************************************)
(* Keyword classifier.                                                     *)
(***************************************************************************)
ai_keywords ==
    << "ai", "artificial intelligence", "machine learning", "deep learning",
       "neural network", "gpt", "llm", "large language model", "chatgpt",
       "generative ai", "computer vision", "nlp",
       "natural language processing", "transformer", "openai", "anthropic",
       "claude", "gemini", "mistral", "U+C778U+ACF5U+C9C0U+B2A5",
       "U+BA38U+C2E0U+B7ECU+B2DD", "U+B525U+B7ECU+B2DD",
       "U+C2E0U+ACBDU+B9DD", "U+C0DDU+C131U+D615 AI" >>

exclude_keywords ==
    << "air", "airpods", "macbook air", "carplay", "android auto",
       "car display", "entertainment system", "stock", "price", "market",
       "shares", "trading", "investor", "U+C8FCU+AC00", "U+C8FCU+C2DD",
       "U+C2DCU+C7A5", "U+D22CU+C790" >>

\* keyword.lower() for each keyword of a list
Lowered(keywords) == [k \in 1..Len(keywords) |-> lower(keywords[k])]

ai_keywords_lower == Lowered(ai_keywords)

exclude_keywords_lower == Lowered(exclude_keywords)

_contains_ai_keywords(text) ==
    LET t == lower(text)
    IN  \E k \in 1..Len(ai_keywords) : Contains(t, ai_keywords_lower[k])

\* an exclusion list that is never consulted
_contains_exclude_keywords_off(text) == FALSE

_contains_exclude_keywords(text) ==
    LET t == lower(text)
    IN  \E k \in 1..Len(exclude_keywords) : Contains(t, exclude_keywords_lower[k])

(***************************************************************************)
(* Time.  A datetime in UTC is [day, sec, us]: the day of January 2024,    *)
(* the second of the day and the microsecond.                              *)
(***************************************************************************)
LastSecond == 86399

LastMicro == 999999

MkTime(d, s, u) == [day |-> d, sec |-> s, us |-> u]

\* datetime comparison a <= b
TimeLeq(a, b) ==
    \/ a.day < b.day
    \/ a.day = b.day /\ a.sec < b.sec
    \/ a.day = b.day /\ a.sec = b.sec /\ a.us <= b.us

Digit(n) == CharAt("0123456789", n + 1)

TwoDigits(n) == Digit(n \div 10) \o Digit(n % 10)

RECURSIVE Digits(_, _)
Digits(n, width) ==
    IF width = 0 THEN "" ELSE Digits(n \div 10, width - 1) \o Digit(n % 10)

\* datetime.isoformat() of a UTC datetime: the microseconds are written
\* only when they are not zero
isoformat(t) ==
    "2024-01-" \o TwoDigits(t.day) \o "T"
        \o TwoDigits(t.sec \div 3600) \o ":"
        \o TwoDigits((t.sec % 3600) \div 60) \o ":"
        \o TwoDigits(t.sec % 60)
        \o (IF t.us = 0 THEN "" ELSE "." \o Digits(t.us, 6))
        \o "+00:00"

\* datetime.strftime('%Y-%m-%d %H:%M:%S')
strftime(t) ==
    "2024-01-" \o TwoDigits(t.day) \o " "
        \o TwoDigits(t.sec \div 3600) \o ":"
        \o TwoDigits((t.sec % 3600) \div 60) \o ":"
        \o TwoDigits(t.sec % 60)

_get_yesterday_range(now) ==
    [start |-> MkTime(now.day - 1, 0, 0),
     end   |-> MkTime(now.day - 1, LastSecond, LastMicro)]

\* a window that leaves out its two bounds
_is_within_date_range_open(date, start, end) ==
    ~TimeLeq(date, start) /\ ~TimeLeq(end, date)

_is_within_date_range(date, start, end) ==
    TimeLeq(start, date) /\ TimeLeq(date, end)

(***************************************************************************)
(* A date string of a feed item is [kind, day, sec, off]:                  *)
(*   "missing"  the item has no published/updated date ('')                *)
(*   "garbage"  no parser accepts the string                               *)
(*   "naive"    local day and second, no UTC offset (taken as UTC)         *)
(*   "aware"    local day and second, with the UTC offset `off` in seconds *)
(***************************************************************************)
DateStr(k, d, s, o) == [kind |-> k, day |-> d, sec |-> s, off |-> o]

\* a fallback to a fixed date instead of the current time
_parse_date_fixed(date_str, now) ==
    IF date_str.kind \in {"naive", "aware"}
    THEN LET off   == IF date_str.kind = "aware" THEN date_str.off ELSE 0
             total == date_str.day * (LastSecond + 1) + date_str.sec - off
         IN  MkTime(total \div (LastSecond + 1), total % (LastSecond + 1), 0)
    ELSE MkTime(1, 0, 0)

\* _parse_date: the parsers give whole seconds, converted to UTC; when all
\* of them fail the result is the current time `now`
_parse_date(date_str, now) ==
    IF date_str.kind \in {"naive", "aware"}
    THEN LET off   == IF date_str.kind = "aware" THEN date_str.off ELSE 0
             total == date_str.day * (LastSecond + 1) + date_str.sec - off
         IN  MkTime(total \div (LastSecond + 1), total % (LastSecond + 1), 0)
    ELSE now

(***************************************************************************)
(* _process_entry.  self.logger is never assigned (only the module-level   *)
(* `logger` exists), so each self.logger.warning(...) raises               *)
(* AttributeError; the handler of line 312 calls self.logger.error(...),   *)
(* which raises again, and that error leaves _process_entry.               *)
(* The result is [kind |-> "item", item |-> ..], [kind |-> "skip"] (None)  *)
(* or [kind |-> "raise"].  nowParse and nowRange are the clock readings of *)
(* _parse_date and of _get_yesterday_range.                                *)
(***************************************************************************)
NoItem == [title |-> "", description |-> "", link |-> "", published |-> "",
           source |-> ""]

Skip == [kind |-> "skip", item |-> NoItem]

Raise == [kind |-> "raise", item |-> NoItem]

self_logger_warning == Raise

_process_entry(entry, feed_name, nowParse, nowRange) ==
    LET date_str       == entry.published
        published_date == _parse_date(date_str, nowParse)
        range          == _get_yesterday_range(nowRange)
        title          == strip(entry.title)
        description    == strip(entry.description)
        link           == entry.link
    IN  IF date_str.kind = "missing" THEN self_logger_warning
        ELSE IF ~_is_within_date_range(published_date, range.start, range.end)
             THEN Skip
        ELSE IF title = "" \/ description = "" THEN self_logger_warning
        ELSE IF ~(_contains_ai_keywords(title) \/ _contains_ai_keywords(description))
             THEN Skip
        ELSE IF _contains_exclude_keywords(title) \/ _contains_exclude_keywords(description)
             THEN Skip
        ELSE IF link = "" THEN self_logger_warning
        ELSE [kind |-> "item",
              item |-> [title |-> title, description |-> description,
                        link |-> link,
                        published |-> isoformat(published_date),
                        source |-> feed_name]]

(***************************************************************************)
(* Python list helpers.                                                    *)
(***************************************************************************)
RECURSIVE InsertDesc(_, _)
InsertDesc(s, item) ==
    IF s = <<>> THEN <<item>>
    ELSE IF StrLess(Head(s).published, item.published) THEN <<item>> \o s
    ELSE <<Head(s)>> \o InsertDesc(Tail(s), item)

\* a merge that leaves the entries in the order of completion
Unsorted(s) == s

\* list.sort(key=lambda x: x['published'], reverse=True): a stable sort on
\* the isoformat strings
RECURSIVE SortByPublishedDesc(_)
SortByPublishedDesc(s) ==
    IF s = <<>> THEN <<>>
    ELSE InsertDesc(SortByPublishedDesc(SubSeq(s, 1, Len(s) - 1)), s[Len(s)])

\* entries[:n]
Prefix(s, n) == SubSeq(s, 1, IF Len(s) < n THEN Len(s) ELSE n)

StartsWith(s, p) == Len(s) >= Len(p) /\ SubSeq(s, 1, Len(p)) = p

Range(s) == {s[i] : i \in 1..Len(s)}

(***************************************************************************)
(* Feed registry: rss_feeds[category][name] is the feed's info.  Python    *)
(* dicts iterate in insertion order; the model iterates categories and     *)
(* names in the fixed orders CategoryOrder and NameOrder.                  *)
(***************************************************************************)
CategoryOrder == <<"general", "specialized", "korean">>

Categories == Range(CategoryOrder)

NameOrder == <<"A", "B">>

Names == Range(NameOrder)

TaskIds == Categories \X Names

NoUrl == ""

Info(u) == [url |-> u, category |-> "tech", language |-> "en"]

KeysOf(order, d) == SelectSeq(order, LAMBDA k : k \in DOMAIN d)

(***************************************************************************)
(* The web as the HEAD probe of the validator sees it: web[url] is         *)
(*   [kind |-> "status", code |-> 200 or another status],                  *)
(*   [kind |-> "redirect", to |-> url'], [kind |-> "timeout"] or           *)
(*   [kind |-> "error"] (connection failure).                              *)
(***************************************************************************)
Status(c) == [kind |-> "status", code |-> c, to |-> NoUrl]

Redirect(u) == [kind |-> "redirect", code |-> 301, to |-> u]

TimedOut == [kind |-> "timeout", code |-> 0, to |-> NoUrl]

NetError == [kind |-> "error", code |-> 0, to |-> NoUrl]

\* requests.head(url, allow_redirects=True): the redirects are followed to
\* the final response; a chain that does not end is TooManyRedirects, a
\* RequestException.  The result is [kind, status_code, url].
RECURSIVE requests_head(_, _, _)
requests_head(w, url, hops) ==
    IF url \notin DOMAIN w THEN [kind |-> "error", status_code |-> 0, url |-> url]
    ELSE LET r == w[url]
         IN  CASE r.kind = "status"   -> [kind |-> "response", status_code |-> r.code, url |-> url]
               [] r.kind = "redirect" ->
                    IF hops = 0 THEN [kind |-> "error", status_code |-> 0, url |-> url]
                    ELSE requests_head(w, r.to, hops - 1)
               [] OTHER               -> [kind |-> r.kind, status_code |-> 0, url |-> url]

\* a validator that reports the redirect but hands back the old URL
UpdatedUrlStale(response, feed_url) ==
    IF response.url # feed_url THEN feed_url ELSE NoUrl

\* (is_valid, updated_url) of one feed; NoUrl is None
UpdatedUrl(response, feed_url) ==
    IF response.url # feed_url THEN response.url ELSE NoUrl

\* a validator content with any response, whatever its status
_validate_and_update_feed_any_status(w, feed_name, feed_info) ==
    LET feed_url == feed_info.url
    IN  IF ~(StartsWith(feed_url, "http://") \/ StartsWith(feed_url, "https://"))
        THEN [valid |-> FALSE, url |-> NoUrl]
        ELSE LET response == requests_head(w, feed_url, Cardinality(DOMAIN w))
             IN  IF response.kind = "response"
                 THEN [valid |-> TRUE, url |-> UpdatedUrl(response, feed_url)]
                 ELSE [valid |-> FALSE, url |-> NoUrl]

_validate_and_update_feed(w, feed_name, feed_info) ==
    LET feed_url == feed_info.url
    IN  IF ~(StartsWith(feed_url, "http://") \/ StartsWith(feed_url, "https://"))
        THEN [valid |-> FALSE, url |-> NoUrl]
        ELSE LET response == requests_head(w, feed_url, Cardinality(DOMAIN w))
             IN  IF response.kind = "response" /\ response.status_code = 200
                 THEN [valid |-> TRUE, url |-> UpdatedUrl(response, feed_url)]
                 ELSE [valid |-> FALSE, url |-> NoUrl]

\* a run that files a moved feed under valid and under invalid
validate_and_update_feeds_overlapping(feeds, w) ==
    LET res(c, n) == _validate_and_update_feed(w, n, feeds[c][n])
        names(c)  == KeysOf(NameOrder, feeds[c])
        moved(c, n) == res(c, n).valid /\ res(c, n).url # NoUrl
        report ==
            [valid   |-> [c \in DOMAIN feeds |->
                             SelectSeq(names(c), LAMBDA n : res(c, n).valid)],
             invalid |-> [c \in DOMAIN feeds |->
                             SelectSeq(names(c), LAMBDA n : ~res(c, n).valid \/ moved(c, n))],
             updated |-> [c \in DOMAIN feeds |-> SelectSeq(names(c), LAMBDA n : moved(c, n))]]
    IN  [report |-> report,
         feeds  |-> [c \in DOMAIN feeds |-> [n \in DOMAIN feeds[c] |->
                        IF moved(c, n)
                        THEN [feeds[c][n] EXCEPT !.url = res(c, n).url]
                        ELSE feeds[c][n]]],
         save   |-> \E c \in DOMAIN feeds : Len(report.updated[c]) > 0]

\* validate_and_update_feeds: the report, the registry with the redirected
\* URLs rewritten, and whether _save_feeds is called at the end
validate_and_update_feeds(feeds, w) ==
    LET res(c, n) == _validate_and_update_feed(w, n, feeds[c][n])
        names(c)  == KeysOf(NameOrder, feeds[c])
        report ==
            [valid   |-> [c \in DOMAIN feeds |->
                             SelectSeq(names(c), LAMBDA n : res(c, n).valid)],
             invalid |-> [c \in DOMAIN feeds |->
                             SelectSeq(names(c), LAMBDA n : ~res(c, n).valid)],
             updated |-> [c \in DOMAIN feeds |->
                             SelectSeq(names(c), LAMBDA n :
                                 res(c, n).valid /\ res(c, n).url # NoUrl)]]
    IN  [report |-> report,
         feeds  |-> [c \in DOMAIN feeds |-> [n \in DOMAIN feeds[c] |->
                        IF res(c, n).valid /\ res(c, n).url # NoUrl
                        THEN [feeds[c][n] EXCEPT !.url = res(c, n).url]
                        ELSE feeds[c][n]]],
         save   |-> \E c \in DOMAIN feeds : Len(report.updated[c]) > 0]

\* a selection that takes every feed of the category, whatever the report
ValidFeedsUnfiltered(feeds, report, category) ==
    IF category \in DOMAIN feeds
    THEN [i \in 1..Len(KeysOf(NameOrder, feeds[category])) |->
             <<category, KeysOf(NameOrder, feeds[category])[i]>>]
    ELSE <<>>

\* the feeds_to_crawl of crawl_rss_feeds, as (category, name) pairs
ValidFeeds(feeds, report, category) ==
    IF category \in DOMAIN feeds
    THEN [i \in 1..Len(SelectSeq(KeysOf(NameOrder, feeds[category]),
                                 LAMBDA n : n \in Range(report.valid[category]))) |->
             <<category, SelectSeq(KeysOf(NameOrder, feeds[category]),
                                   LAMBDA n : n \in Range(report.valid[category]))[i]>>]
    ELSE <<>>

FeedsToCrawl(feeds, report, feed_type) ==
    IF feed_type = "all"
    THEN ValidFeeds(feeds, report, "general") \o ValidFeeds(feeds, report, "specialized")
            \o ValidFeeds(feeds, report, "korean")
    ELSE IF feed_type \in DOMAIN feeds THEN ValidFeeds(feeds, report, feed_type)
    ELSE ValidFeeds(feeds, report, "general")

(***************************************************************************)
(* Feed items as feedparser delivers them: [published, title,              *)
(* description, link].                                                     *)
(***************************************************************************)
RawEntry(d, t, desc, l) == [published |-> d, title |-> t, description |-> desc, link |-> l]

EntryGpt ==
    RawEntry(DateStr("naive", 1, 0, 0), "New GPT model released",
             "A new model", "http://news.example/gpt")

\* 2024-01-02T08:59:59+09:00 is 2024-01-01T23:59:59 UTC
EntryClaude ==
    RawEntry(DateStr("aware", 2, 32399, 32400), " Claude update ",
             "Anthropic news", "http://news.example/claude")

EntryLlm ==
    RawEntry(DateStr("naive", 2, 0, 0), "LLM benchmark", "Results",
             "http://news.example/llm")

EntryUnparseable ==
    RawEntry(DateStr("garbage", 0, 0, 0), "OpenAI event", "Keynote",
             "http://news.example/event")

EntryNoDate == RawEntry(DateStr("missing", 0, 0, 0), "Gemini notes", "Notes", "http://news.example/a")

EntryNoTitle == RawEntry(DateStr("naive", 1, 0, 0), "  ", "About Mistral", "http://news.example/b")

EntryNoDescription == RawEntry(DateStr("naive", 1, 0, 0), "Mistral", "", "http://news.example/c")

EntryNoLink == RawEntry(DateStr("naive", 1, 0, 0), "NLP survey", "Survey", "")

EntryAirPods == RawEntry(DateStr("naive", 1, 0, 0), "AirPods Pro review", "With AI", "http://news.example/d")

EntryWeather == RawEntry(DateStr("naive", 1, 0, 0), "Weather", "Sunny", "http://news.example/e")

(***************************************************************************)
(* The clock.  The readings of datetime.now(utc) never decrease.           *)
(***************************************************************************)
ClockValues == {MkTime(2, LastSecond, LastMicro), MkTime(3, 0, 0)}

Later(t) == {u \in ClockValues : TimeLeq(t, u)}

\* two successive readings
ClockPairs == {q \in ClockValues \X ClockValues : TimeLeq(q[1], q[2])}

AllEntries ==
    {EntryGpt, EntryClaude, EntryLlm, EntryUnparseable, EntryNoDate, EntryNoTitle,
     EntryNoDescription, EntryNoLink, EntryAirPods, EntryWeather}

(***************************************************************************)
(* The loop over feed.entries of _crawl_single_feed (lines 230-238): the   *)
(* set of its possible results [items, raised, now], one for each choice   *)
(* of clock readings.  An error of _process_entry ends the loop with the   *)
(* items appended so far.                                                  *)
(***************************************************************************)
Tagged(item, feed_info) ==
    [title |-> item.title, description |-> item.description, link |-> item.link,
     published |-> item.published, source |-> item.source,
     feed_language |-> feed_info.language, feed_category |-> feed_info.category]

RECURSIVE ProcessEntries(_, _, _, _, _, _)
ProcessEntries(entries, feed_name, feed_info, clk, clocks, news_items) ==
    IF entries = <<>>
    THEN {[items |-> news_items, raised |-> FALSE, now |-> clk]}
    ELSE UNION {
           LET news_item == _process_entry(Head(entries), feed_name, r[1], r[2])
           IN  CASE news_item.kind = "raise" ->
                      {[items |-> news_items, raised |-> TRUE, now |-> r[2]]}
                 [] news_item.kind = "skip" ->
                      ProcessEntries(Tail(entries), feed_name, feed_info, r[2], clocks, news_items)
                 [] OTHER ->
                      ProcessEntries(Tail(entries), feed_name, feed_info, r[2], clocks,
                                     Append(news_items, Tagged(news_item.item, feed_info)))
           : r \in {q \in ClockPairs \cap (clocks \X clocks) : TimeLeq(clk, q[1])} }

(***************************************************************************)
(* Program constants (__init__).                                           *)
(***************************************************************************)
max_retries == 3

retry_delay == 5

timeout == 30

max_workers == 10

(***************************************************************************)
(* Bounds of the model.                                                    *)
(***************************************************************************)
MaxTasks == 2

MaxFeedLen == 2

\* writes of the feed file in one run
MaxWrites == 3

(***************************************************************************)
(* State.                                                                  *)
(***************************************************************************)
VARIABLES
    rss_feeds,          \* the registry
    feeds_file,         \* config/rss_feeds.json
    feeds_writes,       \* number of writes of feeds_file
    web,                \* what the HEAD probes see
    now,                \* the clock
    prev_run, last_run, \* the last two validation runs: [ran, before, after, report,
                        \* wrote, stored]
    feed_metrics,       \* name -> the metrics dict object of that name
    heap,               \* the metrics dict objects, by the task that created them
    metrics_file,       \* data/metrics/feed_metrics.json
    news_hashes,        \* the dedup store
    hash_file,          \* data/metrics/news_hashes.json
    main,               \* crawl_rss_feeds: "idle" or "running"
    cycle,              \* the arguments of the running or last crawl_rss_feeds
    dispatched,         \* number of feed tasks submitted over all cycles
    returned,           \* a crawl_rss_feeds call has returned
    tasks,              \* the feed tasks of the cycle, by (category, name)
    all_entries,        \* all_entries of crawl_rss_feeds
    result,             \* what the last crawl_rss_feeds returned
    metrics_before,     \* the metrics records when the cycle started
    finished,           \* name -> number of feed tasks finished over all cycles
    startup,            \* what __init__ found at feeds_file: "json", "missing"
                        \* or "malformed"
    probe,              \* the last direct call of a method and what it returned
    self_max_workers    \* self.max_workers, the size of the thread pool

vars == <<rss_feeds, feeds_file, feeds_writes, web, now, prev_run, last_run,
          feed_metrics, heap, metrics_file, news_hashes, hash_file, main, cycle,
          dispatched, returned, tasks, all_entries, result, metrics_before, finished,
          startup, probe, self_max_workers>>

registryVars == <<rss_feeds, feeds_file, feeds_writes, web, prev_run, last_run>>

metricsVars == <<feed_metrics, heap>>

storeVars == <<metrics_file, news_hashes, hash_file>>

cycleVars == <<main, cycle, dispatched, returned, all_entries, result, metrics_before>>

probeVars == <<startup, probe, self_max_workers>>

NoProbe == [op |-> "none"]

\* _load_feeds: the parsed file, or {} when the file is missing or json.load
\* fails
_load_feeds(found, file) == IF found = "json" THEN file ELSE <<>>

NoStamp == "None"

\* the record _update_feed_metrics creates (lines 592-600); the average is
\* kept as the quotient num / den
NewMetrics ==
    [total_requests |-> 0, successful_requests |-> 0, failed_requests |-> 0,
     total_response_time |-> 0, avg_response_time |-> [num |-> 0, den |-> 1],
     last_success |-> NoStamp, last_failure |-> NoStamp]

\* the metrics records by name, as json.dump(self.feed_metrics) writes them
MetricsOf(fm, h) == [n \in DOMAIN fm |-> h[fm[n]]]

NoTask ==
    [pc |-> "none", url |-> NoUrl, attempt |-> 0, attempts |-> 0, sleeps |-> 0,
     only_timeouts |-> TRUE, success |-> FALSE, news_items |-> <<>>,
     absent |-> FALSE, ref |-> <<"general", "A">>, tmp |-> 0, tmp2 |-> 0,
     log |-> ""]

NoRun ==
    [ran |-> FALSE, before |-> <<>>, after |-> <<>>, report |-> <<>>, wrote |-> FALSE,
     stored |-> FALSE]

Running(ts) == {t \in TaskIds : ts[t].pc \notin {"none", "pending", "done", "collected"}}

\* _generate_news_hash: the md5 digest is written as the string it digests
_generate_news_hash(news_item) ==
    news_item.title \o news_item.link \o news_item.published

\* a check that never records what it has seen
_is_duplicate_forgetful(hashes, news_item, clk) ==
    [result |-> _generate_news_hash(news_item) \in DOMAIN hashes, hashes |-> hashes]

\* _is_duplicate: the answer and the store after the call.  A record is
\* [date, title]; the date, written '%Y-%m-%d', is kept as the day number
_is_duplicate(hashes, news_item, clk) ==
    LET news_hash    == _generate_news_hash(news_item)
        is_duplicate == news_hash \in DOMAIN hashes
    IN  [result |-> is_duplicate,
         hashes |-> IF is_duplicate THEN hashes
                    ELSE [h \in DOMAIN hashes \cup {news_hash} |->
                             IF h = news_hash
                             THEN [date |-> clk.day, title |-> news_item.title]
                             ELSE hashes[h]]]

\* a save that writes every record
_save_hashes_unpurged(hashes, clk) == hashes

\* _save_hashes: what is written to the file, the records whose date (at
\* 00:00:00) is later than the current time less 30 days
_save_hashes(hashes, clk) ==
    LET cutoff == MkTime(clk.day - 30, clk.sec, clk.us)
    IN  [k \in {h \in DOMAIN hashes : ~TimeLeq(MkTime(hashes[h].date, 0, 0), cutoff)} |->
            hashes[k]]

(***************************************************************************)
(* Direct calls of single methods, between crawl cycles.                   *)
(***************************************************************************)
\* category=None (or ''): no category given
NoCategory == ""

\* _save_feeds: the registry is dumped to the file; a failure of the open
\* or of json.dump is logged and swallowed
_save_feeds(feeds, write_ok) ==
    /\ feeds_file' = IF write_ok THEN feeds ELSE feeds_file
    /\ feeds_writes' = feeds_writes + 1

\* del feeds[category][name]
Without(feeds, category, name) ==
    [feeds EXCEPT ![category] = [n \in DOMAIN feeds[category] \ {name} |-> feeds[category][n]]]

\* dict.update(kwargs)
Updated(info, kwargs) ==
    [k \in DOMAIN info \cup DOMAIN kwargs |-> IF k \in DOMAIN kwargs THEN kwargs[k] ELSE info[k]]

AddFeed(name, url, category, write_ok) ==
    /\ main = "idle"
    /\ feeds_writes < MaxWrites
    /\ LET bucket == IF category \in DOMAIN rss_feeds THEN rss_feeds[category] ELSE <<>>
           info   == [url |-> url, category |-> "tech", language |-> "en",
                      update_frequency |-> "daily"]
       IN  rss_feeds' = [c \in DOMAIN rss_feeds \cup {category} |->
                            IF c = category
                            THEN [n \in DOMAIN bucket \cup {name} |->
                                     IF n = name THEN info ELSE bucket[n]]
                            ELSE rss_feeds[c]]
    /\ _save_feeds(rss_feeds', write_ok)
    /\ probe' = [op |-> "add_feed", name |-> name, category |-> category,
                 before |-> rss_feeds]
    /\ UNCHANGED <<web, prev_run, last_run, now, metricsVars, storeVars, cycleVars,
                   tasks, finished, startup, self_max_workers>>

RemoveFeed(name, category, write_ok) ==
    /\ main = "idle"
    /\ feeds_writes < MaxWrites
    /\ LET cats  == KeysOf(CategoryOrder, rss_feeds)
           found == SelectSeq(cats, LAMBDA cat : name \in DOMAIN rss_feeds[cat])
       IN  IF category # NoCategory /\ category \in DOMAIN rss_feeds
                /\ name \in DOMAIN rss_feeds[category]
           THEN /\ rss_feeds' = Without(rss_feeds, category, name)
                /\ _save_feeds(rss_feeds', write_ok)
           ELSE IF found # <<>>
           THEN /\ rss_feeds' = Without(rss_feeds, found[1], name)
                /\ _save_feeds(rss_feeds', write_ok)
           ELSE UNCHANGED <<rss_feeds, feeds_file, feeds_writes>>
    /\ probe' = [op |-> "remove_feed", name |-> name, category |-> category,
                 before |-> rss_feeds]
    /\ UNCHANGED <<web, prev_run, last_run, now, metricsVars, storeVars, cycleVars,
                   tasks, finished, startup, self_max_workers>>

UpdateFeed(name, category, kwargs, write_ok) ==
    /\ main = "idle"
    /\ feeds_writes < MaxWrites
    /\ IF category \in DOMAIN rss_feeds /\ name \in DOMAIN rss_feeds[category]
       THEN /\ rss_feeds' = [rss_feeds EXCEPT ![category][name] = Updated(@, kwargs)]
            /\ _save_feeds(rss_feeds', write_ok)
       ELSE UNCHANGED <<rss_feeds, feeds_file, feeds_writes>>
    /\ probe' = [op |-> "update_feed", name |-> name, category |-> category,
                 before |-> rss_feeds]
    /\ UNCHANGED <<web, prev_run, last_run, now, metricsVars, storeVars, cycleVars,
                   tasks, finished, startup, self_max_workers>>

\* the items handed to _is_duplicate before this call
Asked == IF probe.op = "_is_duplicate" THEN probe.asked \cup {probe.news_item} ELSE {}

ProcessEntry(entry, feed_name, nowParse, nowRange) ==
    /\ main = "idle"
    /\ TimeLeq(now, nowParse)
    /\ now' = nowRange
    /\ probe' = [op |-> "_process_entry", entry |-> entry, nowParse |-> nowParse,
                 nowRange |-> nowRange,
                 result |-> _process_entry(entry, feed_name, nowParse, nowRange)]
    /\ UNCHANGED <<registryVars, metricsVars, storeVars, cycleVars, tasks, finished,
                   startup, self_max_workers>>

\* a call of _save_hashes; write_ok: the open and json.dump succeed
SaveHashes(write_ok) ==
    /\ main = "idle"
    /\ hash_file' = IF write_ok THEN _save_hashes(news_hashes, now) ELSE hash_file
    /\ probe' = [op |-> "_save_hashes", ok |-> write_ok]
    /\ UNCHANGED <<registryVars, now, metricsVars, metrics_file, news_hashes, cycleVars,
                   tasks, finished, startup, self_max_workers>>

IsDuplicate(news_item) ==
    /\ main = "idle"
    /\ LET r == _is_duplicate(news_hashes, news_item, now)
       IN  /\ news_hashes' = r.hashes
           /\ probe' = [op |-> "_is_duplicate", news_item |-> news_item,
                        result |-> r.result, before |-> news_hashes, asked |-> Asked]
    /\ UNCHANGED <<registryVars, now, metricsVars, metrics_file, hash_file, cycleVars,
                   tasks, finished, startup, self_max_workers>>

(***************************************************************************)
(* validate_and_update_feeds, called on its own or by crawl_rss_feeds.     *)
(***************************************************************************)
\* a run that saves the registry after each updated feed
ValidateStepSavingPerFeed(write_ok) ==
    LET v == validate_and_update_feeds(rss_feeds, web)
        updated == {cn \in Categories \X Names :
                       cn[1] \in DOMAIN v.report.updated
                           /\ cn[2] \in Range(v.report.updated[cn[1]])}
    IN  /\ rss_feeds' = v.feeds
        /\ feeds_file' = IF v.save /\ write_ok THEN v.feeds ELSE feeds_file
        /\ feeds_writes' = feeds_writes + Cardinality(updated)
        /\ prev_run' = last_run
        /\ last_run' = [ran |-> TRUE, before |-> rss_feeds, after |-> v.feeds,
                        report |-> v.report, wrote |-> v.save,
                        stored |-> v.save /\ write_ok]
        /\ web' = web

\* write_ok: the open and json.dump of _save_feeds succeed (lines 130-135)
ValidateStep(write_ok) ==
    LET v == validate_and_update_feeds(rss_feeds, web)
    IN  /\ rss_feeds' = v.feeds
        /\ feeds_file' = IF v.save /\ write_ok THEN v.feeds ELSE feeds_file
        /\ feeds_writes' = IF v.save THEN feeds_writes + 1 ELSE feeds_writes
        /\ prev_run' = last_run
        /\ last_run' = [ran |-> TRUE, before |-> rss_feeds, after |-> v.feeds,
                        report |-> v.report, wrote |-> v.save,
                        stored |-> v.save /\ write_ok]
        /\ web' = web

Validate(write_ok) ==
    /\ main = "idle"
    /\ ValidateStep(write_ok)
    /\ UNCHANGED <<probeVars, now, metricsVars, storeVars, cycleVars, tasks, finished>>

(***************************************************************************)
(* crawl_rss_feeds up to the submission of the feed tasks (lines 394-428). *)
(***************************************************************************)
CrawlStart(feed_type, max_items_per_feed, write_ok) ==
    /\ main = "idle"
    /\ ValidateStep(write_ok)
    /\ LET feeds_to_crawl == FeedsToCrawl(rss_feeds', last_run'.report, feed_type)
       IN  /\ dispatched + Len(feeds_to_crawl) <= MaxTasks
           /\ dispatched' = dispatched + Len(feeds_to_crawl)
           /\ tasks' = [t \in TaskIds |->
                           IF t \in Range(feeds_to_crawl)
                           THEN [NoTask EXCEPT !.pc = "pending"] ELSE NoTask]
    /\ main' = "running"
    /\ cycle' = [feed_type |-> feed_type, max_items_per_feed |-> max_items_per_feed]
    /\ all_entries' = <<>>
    /\ result' = <<>>
    /\ metrics_before' = MetricsOf(feed_metrics, heap)
    /\ UNCHANGED <<probeVars, now, metricsVars, storeVars, returned, finished>>

(***************************************************************************)
(* _crawl_single_feed, one feed task in a worker of the pool.              *)
(***************************************************************************)
\* a pool that starts every submitted task at once
TaskStartUnbounded(t) ==
    /\ tasks[t].pc = "pending"
    /\ tasks' = [tasks EXCEPT ![t] = [@ EXCEPT !.pc = "fetching",
                                                !.url = rss_feeds[t[1]][t[2]].url]]
    /\ UNCHANGED <<probeVars, registryVars, now, metricsVars, storeVars, cycleVars, finished>>

\* a worker takes the task: lines 214-221
TaskStart(t) ==
    /\ tasks[t].pc = "pending"
    /\ Cardinality(Running(tasks)) < self_max_workers
    /\ tasks' = [tasks EXCEPT ![t] = [@ EXCEPT !.pc = "fetching",
                                                !.url = rss_feeds[t[1]][t[2]].url]]
    /\ UNCHANGED <<probeVars, registryVars, now, metricsVars, storeVars, cycleVars, finished>>

\* a loop that also sleeps after its last attempt and then tries again
AfterFailedAttemptSleepsAgain(task, timed_out) ==
    [task EXCEPT !.attempts = @ + 1,
                 !.only_timeouts = @ /\ timed_out,
                 !.pc = IF task.attempt < max_retries THEN "sleeping" ELSE "m_check"]

\* after a failed attempt: lines 252-253, then the next turn of the loop or
\* its end
AfterFailedAttempt(task, timed_out) ==
    [task EXCEPT !.attempts = @ + 1,
                 !.only_timeouts = @ /\ timed_out,
                 !.pc = IF task.attempt < max_retries - 1 THEN "sleeping" ELSE "m_check"]

\* requests.get times out
AttemptTimeout(t) ==
    /\ tasks[t].pc = "fetching"
    /\ tasks' = [tasks EXCEPT ![t] = [AfterFailedAttempt(@, TRUE) EXCEPT !.log = "timed out"]]
    /\ UNCHANGED <<probeVars, registryVars, now, metricsVars, storeVars, cycleVars, finished>>

\* requests.get or raise_for_status raises another RequestException
AttemptRequestError(t) ==
    /\ tasks[t].pc = "fetching"
    /\ tasks' = [tasks EXCEPT ![t] = [AfterFailedAttempt(@, FALSE) EXCEPT !.log = "failed"]]
    /\ UNCHANGED <<probeVars, registryVars, now, metricsVars, storeVars, cycleVars, finished>>

\* an unexpected error handled like a network error
AttemptUnexpectedErrorRetried(t) ==
    /\ tasks[t].pc = "fetching"
    /\ tasks' = [tasks EXCEPT ![t] =
                    [AfterFailedAttempt(@, FALSE) EXCEPT !.log = "Unexpected error"]]
    /\ UNCHANGED <<probeVars, registryVars, now, metricsVars, storeVars, cycleVars, finished>>

\* any other error of the attempt: break (lines 248-250)
AttemptUnexpectedError(t) ==
    /\ tasks[t].pc = "fetching"
    /\ tasks' = [tasks EXCEPT ![t] = [@ EXCEPT !.attempts = @ + 1,
                                                !.only_timeouts = FALSE,
                                                !.log = "Unexpected error",
                                                !.pc = "m_check"]]
    /\ UNCHANGED <<probeVars, registryVars, now, metricsVars, storeVars, cycleVars, finished>>

\* a response with no entries: lines 241-242, then as after a failure
AttemptNoEntries(t) ==
    /\ tasks[t].pc = "fetching"
    /\ tasks' = [tasks EXCEPT ![t] =
                    [AfterFailedAttempt(@, FALSE) EXCEPT !.log = "No entries found"]]
    /\ UNCHANGED <<probeVars, registryVars, now, metricsVars, storeVars, cycleVars, finished>>

\* a response with entries: lines 229-240, or the break of line 250 when
\* _process_entry raises
AttemptEntries(t, entries, clocks) ==
    /\ tasks[t].pc = "fetching"
    /\ entries # <<>>
    /\ \E r \in ProcessEntries(entries, t[2], rss_feeds[t[1]][t[2]], now, clocks,
                                tasks[t].news_items) :
          /\ tasks' = [tasks EXCEPT ![t] = [@ EXCEPT !.attempts = @ + 1,
                                                      !.only_timeouts = FALSE,
                                                      !.news_items = r.items,
                                                      !.success = ~r.raised,
                                                      !.log = IF r.raised
                                                              THEN "Unexpected error"
                                                              ELSE "",
                                                      !.pc = "m_check"]]
          /\ now' = r.now
    /\ UNCHANGED <<probeVars, registryVars, metricsVars, storeVars, cycleVars, finished>>

\* a wait after which the loop starts over without counting the turn
SleepUncounted(t) ==
    /\ tasks[t].pc = "sleeping"
    /\ tasks' = [tasks EXCEPT ![t] = [@ EXCEPT !.pc = "fetching", !.sleeps = @ + 1]]
    /\ UNCHANGED <<probeVars, registryVars, now, metricsVars, storeVars, cycleVars, finished>>

\* time.sleep(self.retry_delay), then the next attempt
Sleep(t) ==
    /\ tasks[t].pc = "sleeping"
    /\ tasks' = [tasks EXCEPT ![t] = [@ EXCEPT !.pc = "fetching", !.attempt = @ + 1,
                                                !.sleeps = @ + 1]]
    /\ UNCHANGED <<probeVars, registryVars, now, metricsVars, storeVars, cycleVars, finished>>

(***************************************************************************)
(* _update_feed_metrics, run by the task's thread with no lock: each read  *)
(* and each write of the shared dicts is a step of its own.                *)
(***************************************************************************)
\* end_time - start_time (lines 215, 255-256), in seconds
ResponseTimes == {1, 2}

\* line 591: feed_name not in self.feed_metrics.  The loop is over: its
\* counters are dropped, and its last log line unless it tells of an
\* unexpected error.
MCheck(t) ==
    /\ tasks[t].pc = "m_check"
    /\ tasks' = [tasks EXCEPT ![t] = [@ EXCEPT !.absent = t[2] \notin DOMAIN feed_metrics,
                                                !.attempt = 0, !.attempts = 0, !.sleeps = 0,
                                                !.log = IF @ = "Unexpected error"
                                                        THEN @ ELSE "",
                                                !.pc = IF t[2] \notin DOMAIN feed_metrics
                                                       THEN "m_create" ELSE "m_ref"]]
    /\ UNCHANGED <<probeVars, registryVars, now, metricsVars, storeVars, cycleVars, finished>>

\* lines 592-600: a new record is stored under the name
MCreate(t) ==
    /\ tasks[t].pc = "m_create"
    /\ heap' = [heap EXCEPT ![t] = NewMetrics]
    /\ feed_metrics' = [n \in DOMAIN feed_metrics \cup {t[2]} |->
                           IF n = t[2] THEN t ELSE feed_metrics[n]]
    /\ tasks' = [tasks EXCEPT ![t] = [@ EXCEPT !.pc = "m_ref"]]
    /\ UNCHANGED <<probeVars, registryVars, now, storeVars, cycleVars, finished>>

\* line 602: metrics = self.feed_metrics[feed_name]
MRef(t) ==
    /\ tasks[t].pc = "m_ref"
    /\ tasks' = [tasks EXCEPT ![t] = [@ EXCEPT !.ref = feed_metrics[t[2]], !.pc = "m_requests_read"]]
    /\ UNCHANGED <<probeVars, registryVars, now, metricsVars, storeVars, cycleVars, finished>>

\* line 603: metrics['total_requests'] += 1
MRequestsRead(t) ==
    /\ tasks[t].pc = "m_requests_read"
    /\ tasks' = [tasks EXCEPT ![t] = [@ EXCEPT !.tmp = heap[tasks[t].ref].total_requests,
                                                !.pc = "m_requests_write"]]
    /\ UNCHANGED <<probeVars, registryVars, now, metricsVars, storeVars, cycleVars, finished>>

MRequestsWrite(t) ==
    /\ tasks[t].pc = "m_requests_write"
    /\ heap' = [heap EXCEPT ![tasks[t].ref].total_requests = tasks[t].tmp + 1]
    /\ tasks' = [tasks EXCEPT ![t] = [@ EXCEPT !.pc = "m_time_read"]]
    /\ UNCHANGED <<probeVars, registryVars, now, feed_metrics, storeVars, cycleVars, finished>>

\* line 604: metrics['total_response_time'] += response_time
MTimeRead(t) ==
    /\ tasks[t].pc = "m_time_read"
    /\ tasks' = [tasks EXCEPT ![t] = [@ EXCEPT !.tmp = heap[tasks[t].ref].total_response_time,
                                                !.pc = "m_time_write"]]
    /\ UNCHANGED <<probeVars, registryVars, now, metricsVars, storeVars, cycleVars, finished>>

MTimeWrite(t, response_time) ==
    /\ tasks[t].pc = "m_time_write"
    /\ heap' = [heap EXCEPT ![tasks[t].ref].total_response_time = tasks[t].tmp + response_time]
    /\ tasks' = [tasks EXCEPT ![t] = [@ EXCEPT !.pc = "m_avg_read_time"]]
    /\ UNCHANGED <<probeVars, registryVars, now, feed_metrics, storeVars, cycleVars, finished>>

\* line 605: avg_response_time = total_response_time / total_requests
MAvgReadTime(t) ==
    /\ tasks[t].pc = "m_avg_read_time"
    /\ tasks' = [tasks EXCEPT ![t] = [@ EXCEPT !.tmp = heap[tasks[t].ref].total_response_time,
                                                !.pc = "m_avg_read_requests"]]
    /\ UNCHANGED <<probeVars, registryVars, now, metricsVars, storeVars, cycleVars, finished>>

MAvgReadRequests(t) ==
    /\ tasks[t].pc = "m_avg_read_requests"
    /\ tasks' = [tasks EXCEPT ![t] = [@ EXCEPT !.tmp2 = heap[tasks[t].ref].total_requests,
                                                !.pc = "m_avg_write"]]
    /\ UNCHANGED <<probeVars, registryVars, now, metricsVars, storeVars, cycleVars, finished>>

MAvgWrite(t) ==
    /\ tasks[t].pc = "m_avg_write"
    /\ heap' = [heap EXCEPT ![tasks[t].ref].avg_response_time =
                                [num |-> tasks[t].tmp, den |-> tasks[t].tmp2]]
    /\ tasks' = [tasks EXCEPT ![t] = [@ EXCEPT !.pc = "m_count_read"]]
    /\ UNCHANGED <<probeVars, registryVars, now, feed_metrics, storeVars, cycleVars, finished>>

\* lines 607-612: the success or the failure counter, and its stamp
MCountRead(t) ==
    /\ tasks[t].pc = "m_count_read"
    /\ tasks' = [tasks EXCEPT ![t] = [@ EXCEPT !.tmp = IF tasks[t].success
                                                       THEN heap[tasks[t].ref].successful_requests
                                                       ELSE heap[tasks[t].ref].failed_requests,
                                                !.pc = "m_count_write"]]
    /\ UNCHANGED <<probeVars, registryVars, now, metricsVars, storeVars, cycleVars, finished>>

\* a counter that counts every attempt of the loop
MCountWritePerAttempt(t) ==
    /\ tasks[t].pc = "m_count_write"
    /\ heap' = [heap EXCEPT ![tasks[t].ref] =
                   IF tasks[t].success
                   THEN [@ EXCEPT !.successful_requests = tasks[t].tmp + 1,
                                  !.last_success = strftime(now)]
                   ELSE [@ EXCEPT !.failed_requests = tasks[t].tmp + max_retries,
                                  !.last_failure = strftime(now)]]
    /\ tasks' = [tasks EXCEPT ![t] = [@ EXCEPT !.pc = "done"]]
    /\ finished' = [finished EXCEPT ![t[2]] = @ + 1]
    /\ UNCHANGED <<probeVars, registryVars, now, feed_metrics, storeVars, cycleVars>>

\* the write of the counter and of its stamp; the task then returns
\* news_items (line 257) and its future is done
MCountWrite(t) ==
    /\ tasks[t].pc = "m_count_write"
    /\ heap' = [heap EXCEPT ![tasks[t].ref] =
                   IF tasks[t].success
                   THEN [@ EXCEPT !.successful_requests = tasks[t].tmp + 1,
                                  !.last_success = strftime(now)]
                   ELSE [@ EXCEPT !.failed_requests = tasks[t].tmp + 1,
                                  !.last_failure = strftime(now)]]
    /\ tasks' = [tasks EXCEPT ![t] = [@ EXCEPT !.pc = "done"]]
    /\ finished' = [finished EXCEPT ![t[2]] = @ + 1]
    /\ UNCHANGED <<probeVars, registryVars, now, feed_metrics, storeVars, cycleVars>>

(***************************************************************************)
(* crawl_rss_feeds after the submission (lines 430-448).                   *)
(***************************************************************************)
\* a loop that takes the results of the successful tasks only
CollectSuccessful(t) ==
    /\ main = "running"
    /\ tasks[t].pc = "done"
    /\ tasks[t].success
    /\ all_entries' = all_entries \o tasks[t].news_items
    /\ tasks' = [tasks EXCEPT ![t] = [@ EXCEPT !.pc = "collected"]]
    /\ UNCHANGED <<probeVars, registryVars, now, metricsVars, storeVars, main, cycle, dispatched,
                   returned, result, metrics_before, finished>>

\* a turn of the loop that takes the whole list of the task
CollectUncapped(t) ==
    /\ main = "running"
    /\ tasks[t].pc = "done"
    /\ all_entries' = all_entries \o tasks[t].news_items
    /\ tasks' = [tasks EXCEPT ![t] = [@ EXCEPT !.pc = "collected"]]
    /\ UNCHANGED <<probeVars, registryVars, now, metricsVars, storeVars, main, cycle, dispatched,
                   returned, result, metrics_before, finished>>

\* one turn of the as_completed loop
Collect(t) ==
    /\ main = "running"
    /\ tasks[t].pc = "done"
    /\ LET entries == tasks[t].news_items
           max_items_per_feed == cycle.max_items_per_feed
       IN  all_entries' = all_entries \o
               (IF max_items_per_feed # 0 /\ Len(entries) > max_items_per_feed
                THEN Prefix(entries, max_items_per_feed) ELSE entries)
    /\ tasks' = [tasks EXCEPT ![t] = [@ EXCEPT !.pc = "collected"]]
    /\ UNCHANGED <<probeVars, registryVars, now, metricsVars, storeVars, main, cycle, dispatched,
                   returned, result, metrics_before, finished>>

\* a return whose saves let their errors through: nothing is handed back
\* when a write fails
CrawlReturnRaising(metrics_ok, hashes_ok) ==
    /\ main = "running"
    /\ \A t \in TaskIds : tasks[t].pc \in {"none", "collected"}
    /\ result' = IF metrics_ok /\ hashes_ok THEN SortByPublishedDesc(all_entries) ELSE <<>>
    /\ metrics_file' = IF metrics_ok THEN MetricsOf(feed_metrics, heap) ELSE metrics_file
    /\ hash_file' = IF metrics_ok /\ hashes_ok THEN _save_hashes(news_hashes, now)
                    ELSE hash_file
    /\ main' = "idle"
    /\ returned' = (returned \/ (metrics_ok /\ hashes_ok))
    /\ UNCHANGED <<probeVars, registryVars, now, metricsVars, news_hashes, cycle, dispatched, tasks,
                   all_entries, metrics_before, finished>>

\* a return that does not wait for the futures
CrawlReturnEarly(metrics_ok, hashes_ok) ==
    /\ main = "running"
    /\ result' = SortByPublishedDesc(all_entries)
    /\ metrics_file' = IF metrics_ok THEN MetricsOf(feed_metrics, heap) ELSE metrics_file
    /\ hash_file' = IF hashes_ok THEN _save_hashes(news_hashes, now) ELSE hash_file
    /\ main' = "idle"
    /\ returned' = TRUE
    /\ UNCHANGED <<probeVars, registryVars, now, metricsVars, news_hashes, cycle, dispatched, tasks,
                   all_entries, metrics_before, finished>>

\* every future was taken: sort, save the metrics and the hashes, return.
\* metrics_ok, hashes_ok: the writes of _save_metrics and _save_hashes
\* succeed; a failure is logged (lines 543-544, 568-569)
CrawlReturn(metrics_ok, hashes_ok) ==
    /\ main = "running"
    /\ \A t \in TaskIds : tasks[t].pc \in {"none", "collected"}
    /\ result' = SortByPublishedDesc(all_entries)
    /\ metrics_file' = IF metrics_ok THEN MetricsOf(feed_metrics, heap) ELSE metrics_file
    /\ hash_file' = IF hashes_ok THEN _save_hashes(news_hashes, now) ELSE hash_file
    /\ main' = "idle"
    /\ returned' = TRUE
    /\ UNCHANGED <<probeVars, registryVars, now, metricsVars, news_hashes, cycle, dispatched, tasks,
                   all_entries, metrics_before, finished>>

(***************************************************************************)
(* Initial states and specifications.                                      *)
(***************************************************************************)
UrlA == "http://a.example/feed"

UrlOld == "http://b.example/rss"

UrlNew == "https://b.example/rss"

UrlBad == "feeds.example/rss"

\* pools: the values of self.max_workers, 10 as __init__ sets it or what the
\* owner of the crawler assigned to the attribute before the first crawl
InitPooled(pools, founds, registries, webs, clocks, stores) ==
    /\ self_max_workers \in pools
    /\ startup \in founds
    /\ feeds_file \in (IF startup = "json" THEN registries ELSE {<<>>})
    /\ rss_feeds = _load_feeds(startup, feeds_file)
    /\ feeds_writes = 0
    /\ web \in webs
    /\ now \in clocks
    /\ prev_run = NoRun
    /\ last_run = NoRun
    /\ feed_metrics = <<>>
    /\ heap = [t \in TaskIds |-> NewMetrics]
    /\ metrics_file = <<>>
    /\ hash_file \in stores
    /\ news_hashes = hash_file
    /\ main = "idle"
    /\ cycle = [feed_type |-> "general", max_items_per_feed |-> 0]
    /\ dispatched = 0
    /\ returned = FALSE
    /\ tasks = [t \in TaskIds |-> NoTask]
    /\ all_entries = <<>>
    /\ result = <<>>
    /\ metrics_before = <<>>
    /\ finished = [n \in Names |-> 0]
    /\ probe = NoProbe

InitFrom(founds, registries, webs, clocks, stores) ==
    InitPooled({max_workers}, founds, registries, webs, clocks, stores)

InitWith(registries, webs, clocks) ==
    InitFrom({"json"}, registries, webs, clocks, {<<>>})

Seqs(S, n) == UNION {[1..k -> S] : k \in 0..n}

\* the steps of a crawl cycle after its start: the feed tasks and the
\* as_completed loop
CycleSteps(bodies, clocks, response_times) ==
    \/ \E t \in TaskIds : TaskStart(t)
    \/ \E t \in TaskIds : AttemptTimeout(t)
    \/ \E t \in TaskIds : AttemptRequestError(t)
    \/ \E t \in TaskIds : AttemptUnexpectedError(t)
    \/ \E t \in TaskIds : AttemptNoEntries(t)
    \/ \E t \in TaskIds, es \in bodies : AttemptEntries(t, es, clocks)
    \/ \E t \in TaskIds : Sleep(t)
    \/ \E t \in TaskIds : MCheck(t)
    \/ \E t \in TaskIds : MCreate(t)
    \/ \E t \in TaskIds : MRef(t)
    \/ \E t \in TaskIds : MRequestsRead(t)
    \/ \E t \in TaskIds : MRequestsWrite(t)
    \/ \E t \in TaskIds : MTimeRead(t)
    \/ \E t \in TaskIds, rt \in response_times : MTimeWrite(t, rt)
    \/ \E t \in TaskIds : MAvgReadTime(t)
    \/ \E t \in TaskIds : MAvgReadRequests(t)
    \/ \E t \in TaskIds : MAvgWrite(t)
    \/ \E t \in TaskIds : MCountRead(t)
    \/ \E t \in TaskIds : MCountWrite(t)
    \/ \E t \in TaskIds : Collect(t)
    \/ CrawlReturn(TRUE, TRUE)

NextWith(feed_types, caps, bodies, clocks, response_times) ==
    \/ \E ft \in feed_types, cap \in caps : CrawlStart(ft, cap, TRUE)
    \/ CycleSteps(bodies, clocks, response_times)

\* general: A (answers), B (no scheme); specialized: A (moved to UrlNew)
Registry1 ==
    [c \in {"general", "specialized"} |->
        IF c = "general"
        THEN [n \in {"A", "B"} |-> IF n = "A" THEN Info(UrlA) ELSE Info(UrlBad)]
        ELSE [n \in {"A"} |-> Info(UrlOld)]]

\* general: A (answers), B (moved to UrlNew); specialized: A (no scheme)
Registry2 ==
    [c \in {"general", "specialized"} |->
        IF c = "general"
        THEN [n \in {"A", "B"} |-> IF n = "A" THEN Info(UrlA) ELSE Info(UrlOld)]
        ELSE [n \in {"A"} |-> Info(UrlBad)]]

Web1 ==
    [u \in {UrlA, UrlOld, UrlNew} |->
        IF u = UrlOld THEN Redirect(UrlNew) ELSE Status(200)]

BeforeMidnight == MkTime(2, LastSecond, LastMicro)

\* Crawl cycles over two feeds of different names.
SpecEntries ==
    {EntryGpt, EntryClaude, EntryNoDate, EntryNoTitle, EntryNoLink, EntryAirPods,
     EntryWeather}

Bodies == Seqs(SpecEntries, MaxFeedLen)

Init == InitWith({Registry2}, {Web1}, {BeforeMidnight})

Next == NextWith({"all"}, {0}, Bodies, {BeforeMidnight}, {1})

Spec == Init /\ [][Next]_vars

\* Crawl cycles over feeds of the same name in two categories.
BodiesMetrics == {<<EntryGpt>>}

InitMetrics == InitWith({Registry1}, {Web1}, {BeforeMidnight})

NextMetrics ==
    NextWith({"all", "general", "specialized"}, {0}, BodiesMetrics, {BeforeMidnight},
             ResponseTimes)

SpecMetrics == InitMetrics /\ [][NextMetrics]_vars

\* Validation runs alone, over registries and webs of every kind.
UrlChoices == {UrlA, UrlOld, UrlBad}

RegistriesValidate ==
    {[c \in {"general", "specialized"} |->
        IF c = "general"
        THEN [n \in {"A", "B"} |-> IF n = "A" THEN Info(u1) ELSE Info(u2)]
        ELSE [n \in {"A"} |-> Info(u3)]]
     : u1 \in UrlChoices, u2 \in UrlChoices, u3 \in UrlChoices}

WebsValidate ==
    {[u \in {UrlA, UrlOld, UrlNew} |->
        IF u = UrlA THEN a ELSE IF u = UrlOld THEN o ELSE n]
     : a \in {Status(200), Status(404)},
       o \in {Redirect(UrlNew), Status(200), TimedOut},
       n \in {Status(200), Status(404), Redirect(UrlA), Redirect(UrlOld), NetError}}

InitValidate == InitWith(RegistriesValidate, WebsValidate, {BeforeMidnight})

NextValidate == \E write_ok \in BOOLEAN : Validate(write_ok)

SpecValidate == InitValidate /\ [][NextValidate]_vars

\* The threads of the pool and the main thread keep running: as long as a
\* step of the cycle can be taken, one is taken.  Nothing obliges the caller
\* to start another cycle.
BodiesFair == {<<EntryGpt>>, <<EntryNoDate>>}

NextFair == NextWith({"all"}, {0}, BodiesFair, {BeforeMidnight}, {1})

FairSpec ==
    Init /\ [][NextFair]_vars /\ WF_vars(CycleSteps(BodiesFair, {BeforeMidnight}, {1}))

\* Single entries through _process_entry: dates on and around the bounds of
\* the window, texts with and without keywords of the two lists.
ProbeDates ==
    {DateStr("naive", 0, LastSecond, 0), DateStr("naive", 1, 0, 0),
     DateStr("naive", 1, LastSecond, 0), DateStr("aware", 2, 32399, 32400),
     DateStr("naive", 2, 0, 0), DateStr("naive", 3, 0, 0),
     DateStr("garbage", 0, 0, 0)}

ProbeTexts ==
    {<<"New GPT model released", "A new model">>,
     <<"Weekly digest", "OPENAI ships tools">>,
     <<"AirPods Pro review", "With AI inside">>,
     <<"Weather", "Sunny">>,
     <<"Stock MARKET today", "Shares rise">>,
     <<"Claude update", "Price of tokens">>,
     <<"Said so", "Fine day">>,
     <<" Claude update ", "Anthropic news">>}

ProbeEntries ==
    {RawEntry(d, tx[1], tx[2], "http://news.example/p") : d \in ProbeDates, tx \in ProbeTexts}
        \cup {EntryNoDate, EntryNoTitle, EntryNoDescription, EntryNoLink}

InitEntry == InitWith({Registry2}, {Web1}, ClockValues)

NextEntry ==
    \E entry \in ProbeEntries, q \in ClockPairs : ProcessEntry(entry, "A", q[1], q[2])

SpecEntry == InitEntry /\ [][NextEntry]_vars

\* The engine constructed over a feed file that is there, missing or not
\* JSON, and the crawl cycles that follow.
InitStartup ==
    InitFrom({"json", "missing", "malformed"}, {Registry2}, {Web1}, {BeforeMidnight}, {<<>>})

SpecStartup == InitStartup /\ [][NextFair]_vars

\* Maintenance of the registry: feeds added, removed and updated, the write
\* of the feed file succeeding or failing.
InitRegistry == InitWith({Registry2}, {Web1}, {BeforeMidnight})

NextRegistry ==
    \E name \in Names, write_ok \in BOOLEAN :
        \/ \E category \in Categories, url \in {UrlA, UrlNew} :
              AddFeed(name, url, category, write_ok)
        \/ \E category \in Categories \cup {NoCategory} : RemoveFeed(name, category, write_ok)
        \/ \E category \in Categories, kwargs \in {[url |-> UrlNew], [language |-> "ko"]} :
              UpdateFeed(name, category, kwargs, write_ok)

SpecRegistry == InitRegistry /\ [][NextRegistry]_vars

\* Repeated duplicate checks of news items; items of one title, link and
\* publication time differ in their description only.
DedupItems ==
    {[title |-> t, description |-> d, link |-> l,
      published |-> isoformat(MkTime(1, 0, 0)), source |-> "A"] :
        t \in {"GPT news", "Claude news"}, d \in {"x", "y"},
        l \in {"http://news.example/1", "http://news.example/2"}}

InitDedup == InitWith({Registry2}, {Web1}, {BeforeMidnight})

NextDedup == \E news_item \in DedupItems : IsDuplicate(news_item)

SpecDedup == InitDedup /\ [][NextDedup]_vars

\* The dedup store loaded with records of several ages, then duplicate
\* checks and saves.  The days are days of January 2024, 0 and below lying
\* in December 2023.
StoredDates == {-29, -28, -27, -26, 1}

Stores ==
    UNION {[hs -> {[date |-> d, title |-> "Old news"] : d \in StoredDates}] :
              hs \in SUBSET {"h1", "h2"}}

PurgeItems ==
    {i \in DedupItems : i.description = "x" /\ i.link = "http://news.example/1"}

InitPurge == InitFrom({"json"}, {Registry2}, {Web1}, ClockValues, Stores)

NextPurge ==
    \/ \E write_ok \in BOOLEAN : SaveHashes(write_ok)
    \/ \E news_item \in PurgeItems : IsDuplicate(news_item)

SpecPurge == InitPurge /\ [][NextPurge]_vars

\* Crawl cycles of two feed tasks in pools of one and of two workers.
InitPool ==
    InitPooled({1, 2}, {"json"}, {Registry1}, {Web1}, {BeforeMidnight}, {<<>>})

NextPool == NextWith({"all"}, {0}, BodiesMetrics, {BeforeMidnight}, {1})

SpecPool == InitPool /\ [][NextPool]_vars

\* Crawl cycles with a cap of one item for each feed, over feeds of up to
\* two items.
NextCap ==
    NextWith({"all"}, {1}, Seqs({EntryGpt, EntryClaude, EntryWeather}, MaxFeedLen),
             {BeforeMidnight}, {1})

SpecCap == Init /\ [][NextCap]_vars

\* Crawl cycles around midnight over feeds with an item whose date no parser
\* accepts.
BodiesClock == {<<EntryUnparseable>>, <<EntryGpt>>, <<EntryUnparseable, EntryGpt>>}

InitClock == InitWith({Registry2}, {Web1}, {BeforeMidnight})

NextClock == NextWith({"all"}, {0}, BodiesClock, ClockValues, {1})

SpecClock == InitClock /\ [][NextClock]_vars

\* Crawl cycles in which the writes of the feed file, of the metrics file
\* and of the hash file succeed or fail; the hash file holds an old record.
OldStore == [h \in {"h1"} |-> [date |-> -29, title |-> "Old news"]]

InitFailing == InitFrom({"json"}, {Registry2}, {Web1}, {BeforeMidnight}, {OldStore})

NextFailing ==
    \/ \E write_ok \in BOOLEAN : CrawlStart("all", 0, write_ok)
    \/ CycleSteps(BodiesFair, {BeforeMidnight}, {1})
    \/ \E metrics_ok, hashes_ok \in BOOLEAN :
          ~(metrics_ok /\ hashes_ok) /\ CrawlReturn(metrics_ok, hashes_ok)

SpecFailing == InitFailing /\ [][NextFailing]_vars

(***************************************************************************)
(* Properties.                                                             *)
(***************************************************************************)
Collected(t) == tasks[t].pc = "collected"

(* C1: every crawl cycle that starts comes to its return statement and     *)
(* hands back the list, whichever feed tasks time out, fail on the network *)
(* or raise an unexpected error.                                           *)
C1_CrawlAlwaysReturns == (main = "running") ~> (main = "idle" /\ returned)

\* a cycle has returned with two failed feeds, one of them after timeouts only
C1_Witness ==
    /\ returned
    /\ \E t1, t2 \in TaskIds :
          /\ Collected(t1) /\ ~tasks[t1].success /\ tasks[t1].only_timeouts
          /\ Collected(t2) /\ ~tasks[t2].success /\ ~tasks[t2].only_timeouts

Idle == main = "idle" /\ returned

(* C2: the list a crawl cycle returns holds at most one entry for each     *)
(* fingerprint (title, link, published), also when two feeds deliver the   *)
(* same item.                                                              *)
C2_OneEntryPerFingerprint ==
    Idle =>
        \A i, j \in 1..Len(result) :
            i # j => _generate_news_hash(result[i]) # _generate_news_hash(result[j])

\* the loop of _crawl_single_feed is over for task t
LoopDone(t) == tasks[t].pc \notin {"none", "pending", "fetching", "sleeping"}

FromFeed(entries, t) == {i \in 1..Len(entries) : entries[i].source = t[2]}

(* C3: a feed whose every attempt times out is attempted exactly           *)
(* max_retries times, sleeps once between two attempts and not after the   *)
(* last one, and brings no entry into the result.                          *)
C3_RetryExhaustion ==
    \A t \in TaskIds :
        tasks[t].only_timeouts =>
            /\ tasks[t].pc = "fetching" => tasks[t].sleeps = tasks[t].attempts
            /\ tasks[t].pc = "sleeping" =>
                  /\ tasks[t].sleeps = tasks[t].attempts - 1
                  /\ tasks[t].attempts < max_retries
            /\ tasks[t].pc = "m_check" =>
                  /\ tasks[t].attempts = max_retries
                  /\ tasks[t].sleeps = max_retries - 1
            /\ LoopDone(t) =>
                  /\ tasks[t].news_items = <<>>
                  /\ ~tasks[t].success
                  /\ FromFeed(all_entries, t) = {}
                  /\ FromFeed(result, t) = {}

\* the loop of a feed has just ended after timeouts only, while the other
\* feed has delivered an entry
C3_Witness ==
    \E t, u \in TaskIds :
        /\ tasks[t].pc = "m_check" /\ tasks[t].only_timeouts
        /\ LoopDone(u) /\ tasks[u].news_items # <<>>

\* the datetime an isoformat() string stands for
DigitValue(c) == CHOOSE n \in 0..9 : Digit(n) = c

NumberAt(s, i, width) ==
    LET d(k) == DigitValue(CharAt(s, i + k))
    IN  IF width = 2 THEN d(0) * 10 + d(1)
        ELSE d(0) * 100000 + d(1) * 10000 + d(2) * 1000 + d(3) * 100 + d(4) * 10 + d(5)

Instant(published) ==
    MkTime(NumberAt(published, 9, 2),
           NumberAt(published, 12, 2) * 3600 + NumberAt(published, 15, 2) * 60
               + NumberAt(published, 18, 2),
           IF CharAt(published, 20) = "." THEN NumberAt(published, 21, 6) ELSE 0)

(* C4: whatever the order in which the feed tasks complete, the list a     *)
(* crawl cycle returns is in descending order of the publication times.    *)
C4_SortedByPublishedDesc ==
    Idle =>
        \A i \in 1..(Len(result) - 1) :
            TimeLeq(Instant(result[i + 1].published), Instant(result[i].published))

\* entries of two publication times were merged in ascending order and
\* returned
C4_Witness ==
    /\ Idle
    /\ Len(all_entries) >= 2
    /\ all_entries[1].published # all_entries[2].published
    /\ TimeLeq(Instant(all_entries[1].published), Instant(all_entries[2].published))

\* an entry lacks its date, title, description or link
Incomplete(entry) ==
    \/ entry.published.kind = "missing"
    \/ strip(entry.title) = ""
    \/ strip(entry.description) = ""
    \/ entry.link = ""

\* the items of the entries that pass the filter, in the order of the feed
Accepted(entries, t) ==
    LET out(i) == _process_entry(entries[i], t[2], now, now)
        kept   == SelectSeq([i \in 1..Len(entries) |-> i], LAMBDA i : out(i).kind = "item")
    IN  [k \in 1..Len(kept) |-> Tagged(out(kept[k]).item, rss_feeds[t[1]][t[2]])]

(* C5: when a feed delivers an entry without date, title, description or   *)
(* link, that entry is skipped, the other entries of the feed are          *)
(* processed and the feed task ends as a success.                          *)
C5_IncompleteEntrySkipped ==
    [][\A t \in TaskIds, es \in Bodies :
          (/\ AttemptEntries(t, es, {BeforeMidnight})
           /\ \E i \in 1..Len(es) : Incomplete(es[i]))
          => /\ tasks'[t].success
             /\ tasks'[t].news_items = Accepted(es, t)]_vars

(* C6: the returned list holds entries of successful feed tasks only; a    *)
(* feed whose task is recorded as failed brings nothing into it.           *)
C6_OnlySuccessfulFeeds ==
    Idle =>
        \A t \in TaskIds :
            Collected(t) /\ ~tasks[t].success => FromFeed(result, t) = {}

\* the metrics record of a name, and a counter of it now and when the
\* cycle started (0 when there was no record)
Record(n) == heap[feed_metrics[n]]

CounterNow(n, field) == IF n \in DOMAIN feed_metrics THEN Record(n)[field] ELSE 0

CounterBefore(n, field) ==
    IF n \in DOMAIN metrics_before THEN metrics_before[n][field] ELSE 0

Growth(n, field) == CounterNow(n, field) - CounterBefore(n, field)

\* the feed tasks of the cycle for a name
TasksOf(n) == {t \in TaskIds : Collected(t) /\ t[2] = n}

(* C7: after any number of crawl cycles each metrics record has            *)
(* avg_response_time = total_response_time / total_requests, and its       *)
(* total_requests is the number of tasks of that feed finished so far.     *)
C7_MetricsAccumulate ==
    main = "idle" =>
        \A n \in DOMAIN feed_metrics :
            /\ Record(n).avg_response_time.num * Record(n).total_requests
                   = Record(n).total_response_time * Record(n).avg_response_time.den
            /\ Record(n).total_requests = finished[n]

(* C8: the metrics updates of concurrently finishing tasks exclude each    *)
(* other: over a cycle the total_requests of each name grows by the number *)
(* of tasks that finished for that name.                                   *)
C8_NoLostUpdate ==
    Idle => \A n \in Names : Growth(n, "total_requests") = Cardinality(TasksOf(n))

\* the tasks of the cycle whose every attempt timed out
TimedOutTasks(n) == {t \in TasksOf(n) : tasks[t].only_timeouts}

(* C9, as stated: over a cycle the failed_requests of a feed whose every   *)
(* attempt timed out grows by max_retries.                                 *)
C9_FailedGrowsByMaxRetries ==
    Idle =>
        \A n \in Names :
            TimedOutTasks(n) # {} => Growth(n, "failed_requests") = max_retries

(* C9, amended: over a cycle the failed_requests of a feed whose every     *)
(* attempt timed out grows by one for the task, not by one for each        *)
(* attempt: by exactly 1 when the task is the only one of its name in the  *)
(* cycle, and never by more than the number of failed tasks of that name.  *)
C9_FailedGrowsOncePerTask ==
    Idle =>
        \A n \in Names :
            TimedOutTasks(n) # {} =>
                /\ Growth(n, "failed_requests")
                      <= Cardinality({t \in TasksOf(n) : ~tasks[t].success})
                /\ Cardinality(TasksOf(n)) = 1 => Growth(n, "failed_requests") = 1

\* a cycle has returned whose only task of a name timed out max_retries
\* times, on a record that existed before
C9_Witness ==
    /\ Idle
    /\ \E n \in Names :
          /\ Cardinality(TasksOf(n)) = 1
          /\ TimedOutTasks(n) # {}
          /\ n \in DOMAIN metrics_before
          /\ Growth(n, "failed_requests") = 1

\* the HEAD probe of a URL is redirected and ends with status 200
Redirected(w, url) ==
    LET response == requests_head(w, url, Cardinality(DOMAIN w))
    IN  /\ StartsWith(url, "http://") \/ StartsWith(url, "https://")
        /\ response.kind = "response"
        /\ response.status_code = 200
        /\ response.url # url

FinalUrl(w, url) == requests_head(w, url, Cardinality(DOMAIN w)).url

FeedsOf(registry) == {cn \in Categories \X Names :
                        cn[1] \in DOMAIN registry /\ cn[2] \in DOMAIN registry[cn[1]]}

(* C10: a validation run reports a feed whose URL is redirected to a URL   *)
(* answering 200 as valid and updated and stores the new URL in the        *)
(* registry; the next run on that registry reports the feed valid, not     *)
(* updated, and does not write the registry.                               *)
C10_RedirectSelfHeal ==
    /\ last_run.ran =>
          \A cn \in FeedsOf(last_run.before) :
              LET c == cn[1]
                  n == cn[2]
                  old == last_run.before[c][n].url
              IN  Redirected(web, old) =>
                      /\ n \in Range(last_run.report.valid[c])
                      /\ n \in Range(last_run.report.updated[c])
                      /\ n \notin Range(last_run.report.invalid[c])
                      /\ rss_feeds[c][n].url = FinalUrl(web, old)
                      /\ last_run.wrote
                      /\ last_run.stored => feeds_file[c][n].url = FinalUrl(web, old)
    /\ prev_run.ran =>
          \A cn \in FeedsOf(prev_run.before) :
              LET c == cn[1]
                  n == cn[2]
              IN  Redirected(web, prev_run.before[c][n].url) =>
                      /\ n \in Range(last_run.report.valid[c])
                      /\ n \notin Range(last_run.report.updated[c])
                      /\ last_run.after[c][n] = last_run.before[c][n]
                      /\ ~last_run.wrote
                      /\ rss_feeds = prev_run.after

\* two runs were made on a registry with a redirected feed
C10_Witness ==
    /\ prev_run.ran
    /\ last_run.ran
    /\ \E cn \in FeedsOf(prev_run.before) :
          /\ Redirected(web, prev_run.before[cn[1]][cn[2]].url)
          /\ prev_run.before[cn[1]][cn[2]].url # rss_feeds[cn[1]][cn[2]].url

\* two news items made from the same entry
SameEntry(a, b) ==
    a.title = b.title /\ a.link = b.link /\ a.published = b.published

(* C11: a duplicate check answers false the first time an entry is shown   *)
(* and true every later time; the first check adds one record for the      *)
(* entry to the store, a later check leaves the store as it was.           *)
C11_DuplicateCheckIdempotent ==
    probe.op = "_is_duplicate" =>
        /\ probe.result <=> \E i \in probe.asked : SameEntry(i, probe.news_item)
        /\ probe.result => news_hashes = probe.before
        /\ ~probe.result =>
              /\ Cardinality(DOMAIN news_hashes) = Cardinality(DOMAIN probe.before) + 1
              /\ \A h \in DOMAIN probe.before :
                     h \in DOMAIN news_hashes /\ news_hashes[h] = probe.before[h]
              /\ \E h \in DOMAIN news_hashes \ DOMAIN probe.before :
                     news_hashes[h] = [date |-> now.day, title |-> probe.news_item.title]

\* an entry was shown again after other entries had been recorded
C11_Witness ==
    /\ probe.op = "_is_duplicate"
    /\ probe.result
    /\ probe.news_item \in probe.asked
    /\ Cardinality(DOMAIN news_hashes) >= 2

\* the probe is a call of _process_entry with an entry that has all its fields
ProbedComplete == probe.op = "_process_entry" /\ ~Incomplete(probe.entry)

ProbeAccepted == probe.result.kind = "item"

\* yesterday, by the clock reading the window was computed from
YesterdayStart == MkTime(probe.nowRange.day - 1, 0, 0)

YesterdayEnd == MkTime(probe.nowRange.day - 1, LastSecond, LastMicro)

InYesterday(t) == TimeLeq(YesterdayStart, t) /\ TimeLeq(t, YesterdayEnd)

\* word occurs in text, letters compared without regard to case
SameLetter(a, b) ==
    \/ a = b
    \/ \E n \in 1..26 :
          {a, b} = {CharAt("ABCDEFGHIJKLMNOPQRSTUVWXYZ", n),
                    CharAt("abcdefghijklmnopqrstuvwxyz", n)}

Occurs(word, text) ==
    \E i \in 1..(Len(text) - Len(word) + 1) :
        \A k \in 1..Len(word) : SameLetter(CharAt(text, i + k - 1), CharAt(word, k))

IncludeMatch(entry) ==
    \E k \in 1..Len(ai_keywords) :
        Occurs(ai_keywords[k], entry.title) \/ Occurs(ai_keywords[k], entry.description)

ExcludeMatch(entry) ==
    \E k \in 1..Len(exclude_keywords) :
        Occurs(exclude_keywords[k], entry.title)
            \/ Occurs(exclude_keywords[k], entry.description)

(* C12: the date window takes both its bounds: an entry dated yesterday    *)
(* 00:00:00.000000 UTC or yesterday 23:59:59.999999 UTC is inside, an      *)
(* entry dated today 00:00:00 or before yesterday 00:00:00 is outside.     *)
C12_WindowInclusive ==
    ProbedComplete /\ IncludeMatch(probe.entry) /\ ~ExcludeMatch(probe.entry) =>
        LET d == probe.entry.published
        IN  /\ d.kind = "naive" => (ProbeAccepted <=> InYesterday(MkTime(d.day, d.sec, 0)))
            /\ d.kind = "garbage" => (ProbeAccepted <=> InYesterday(probe.nowParse))
            /\ ProbeAccepted => InYesterday(Instant(probe.result.item.published))

\* an entry stamped with the last microsecond of yesterday was accepted
C12_Witness ==
    /\ ProbedComplete
    /\ ProbeAccepted
    /\ Instant(probe.result.item.published) = YesterdayEnd

(* C13: an entry of yesterday passes the keyword gate exactly when some    *)
(* include keyword is a case-insensitive substring of its title or         *)
(* description and no exclude keyword is; an exclude match rejects the     *)
(* entry even when an include keyword matches.                             *)
C13_KeywordGate ==
    /\ ProbedComplete
    /\ InYesterday(_parse_date(probe.entry.published, probe.nowParse))
    => (ProbeAccepted <=> IncludeMatch(probe.entry) /\ ~ExcludeMatch(probe.entry))

\* an entry of yesterday matching both lists was rejected
C13_Witness ==
    /\ ProbedComplete
    /\ InYesterday(_parse_date(probe.entry.published, probe.nowParse))
    /\ IncludeMatch(probe.entry)
    /\ ExcludeMatch(probe.entry)
    /\ ~ProbeAccepted

\* the registry without the feed `name` of `category`, unchanged when there
\* is no such feed
Removed(feeds, category, name) ==
    IF category \in DOMAIN feeds /\ name \in DOMAIN feeds[category]
    THEN Without(feeds, category, name) ELSE feeds

\* the categories holding a feed `name`, in the order of the registry
Holding(feeds, name) ==
    SelectSeq(KeysOf(CategoryOrder, feeds), LAMBDA c : name \in DOMAIN feeds[c])

(* C14: remove_feed with a category removes the feed from that category    *)
(* only and leaves the other categories as they were, also when the name   *)
(* is absent from the given category and present in another; without a     *)
(* category it removes the first match only; when nothing matches the      *)
(* registry is unchanged.                                                  *)
C14_RemoveScopedToCategory ==
    probe.op = "remove_feed" =>
        IF probe.category # NoCategory
        THEN rss_feeds = Removed(probe.before, probe.category, probe.name)
        ELSE IF Holding(probe.before, probe.name) # <<>>
        THEN rss_feeds = Removed(probe.before, Holding(probe.before, probe.name)[1], probe.name)
        ELSE rss_feeds = probe.before

(* C15: whenever add_feed, remove_feed or update_feed returns normally,    *)
(* the persisted feed store equals the in-memory registry.                 *)
C15_StoreEqualsRegistry ==
    probe.op \in {"add_feed", "remove_feed", "update_feed"} => feeds_file = rss_feeds

(* C16: a missing or malformed feed configuration store is fatal at        *)
(* startup: the engine does not start a crawl with such a store.           *)
C16_NoCrawlWithoutFeedStore ==
    startup \in {"missing", "malformed"} => main = "idle" /\ ~returned

\* the step is a save whose write succeeded
Saved == probe'.op = "_save_hashes" /\ probe'.ok

\* the time 30 days before the save
Cutoff == MkTime(now.day - 30, now.sec, now.us)

\* the record's date lies before the cutoff: it is older than 30 days
Older(record) ==
    LET seen == MkTime(record.date, 0, 0)
    IN  TimeLeq(seen, Cutoff) /\ seen # Cutoff

\* a step that is not a successful save removes no record
NoRemoval ==
    /\ ~Saved => hash_file' = hash_file
    /\ \A h \in DOMAIN news_hashes :
          h \in DOMAIN news_hashes' /\ news_hashes'[h] = news_hashes[h]

(* C17: saving the dedup store purges it: after a save the store holds no  *)
(* record older than 30 days and still holds every record that is not      *)
(* older than 30 days; no record is removed at any other time.             *)
C17_SavePurgesOlderThan30Days ==
    [][/\ Saved =>
            /\ \A h \in DOMAIN hash_file' : ~Older(hash_file'[h])
            /\ \A h \in DOMAIN news_hashes :
                  ~Older(news_hashes[h]) =>
                      h \in DOMAIN hash_file' /\ hash_file'[h] = news_hashes[h]
       /\ NoRemoval]_vars

(* C17, amended: a successful save writes to the persisted store exactly   *)
(* the records dated later than 30 days before the save, so that a record  *)
(* dated exactly 30 days before goes as well; the records in memory stay,  *)
(* and no record leaves either store at any other time.                    *)
C17_SavePurges30DaysAndOlder ==
    [][/\ Saved =>
            /\ \A h \in DOMAIN hash_file' :
                  h \in DOMAIN news_hashes /\ hash_file'[h] = news_hashes[h]
            /\ \A h \in DOMAIN news_hashes :
                  h \in DOMAIN hash_file' <=>
                      ~TimeLeq(MkTime(news_hashes[h].date, 0, 0), Cutoff)
       /\ NoRemoval]_vars

\* a save dropped one record and kept another
C17_Witness ==
    /\ probe.op = "_save_hashes"
    /\ probe.ok
    /\ \E h \in DOMAIN news_hashes : h \notin DOMAIN hash_file
    /\ \E h \in DOMAIN news_hashes :
          h \in DOMAIN hash_file /\ news_hashes[h].date \in StoredDates

\* the validation run of the cycle put feed t on the list
Reported(list, t) ==
    t[1] \in DOMAIN last_run.report[list] /\ t[2] \in Range(last_run.report[list][t[1]])

Dispatched(t) == tasks[t].pc # "none"

(* C19: in a crawl cycle a fetch task is dispatched only for feeds that the *)
(* validation run of the same cycle reported valid; a feed reported        *)
(* invalid is never fetched and gets no metrics update in that cycle; a    *)
(* feed reported updated is fetched from its rewritten URL.                *)
C19_OnlyValidFeedsFetched ==
    main = "running" \/ Idle =>
        /\ \A t \in TaskIds :
              /\ Dispatched(t) => Reported("valid", t)
              /\ Reported("invalid", t) => ~Dispatched(t) /\ tasks[t] = NoTask
              /\ Reported("updated", t) /\ tasks[t].url # NoUrl =>
                    /\ tasks[t].url = FinalUrl(web, last_run.before[t[1]][t[2]].url)
                    /\ tasks[t].url # last_run.before[t[1]][t[2]].url
        /\ \A n \in Names :
              (\A t \in TaskIds : t[2] = n => ~Dispatched(t)) =>
                  \A field \in {"total_requests", "successful_requests", "failed_requests",
                                 "total_response_time"} : Growth(n, field) = 0

\* a cycle over all feeds returned: the invalid feed was left out and the
\* moved feed was fetched from its new address
C19_Witness ==
    /\ Idle
    /\ \E t \in TaskIds : Reported("invalid", t) /\ ~Dispatched(t)
    /\ \E t \in TaskIds :
          /\ Reported("updated", t)
          /\ Collected(t)
          /\ tasks[t].url = UrlNew
    /\ Growth("B", "total_requests") = 0
    /\ Growth("A", "total_requests") > 0

Undated(item) == item.link = EntryUnparseable.link

\* the items the feed tasks hold, the merged list and the returned list
ItemsInFlight ==
    Range(all_entries) \cup Range(result)
        \cup UNION {Range(tasks[t].news_items) : t \in TaskIds}

(* C20: an entry whose date string cannot be parsed is stamped with the    *)
(* current UTC time, and under some timing of the crawl (the clock passes  *)
(* midnight between the stamp and the computation of the window) such an   *)
(* entry passes the yesterday filter and reaches the result.               *)
C20_UnparseableDateTakesNow ==
    \A item \in ItemsInFlight :
        Undated(item) =>
            /\ Instant(item.published) \in ClockValues
            /\ TimeLeq(BeforeMidnight, Instant(item.published))
            /\ TimeLeq(Instant(item.published), now)
            /\ Instant(item.published).day = now.day - 1

\* the entry with the unparseable date is in the returned list
C20_Witness == Idle /\ \E i \in 1..Len(result) : Undated(result[i])

\* the last attempt of task t got an HTTP response
GotResponse(t) == tasks[t].attempts > 0 /\ tasks[t].log \in {"", "No entries found"}

(* C21: a feed task makes a further attempt only after an attempt that     *)
(* ended in a timeout or network error; an attempt that receives a         *)
(* successful HTTP response moves the task to Success and ends its         *)
(* attempts, whatever the parsed body contains, zero entries included.     *)
C21_RetryOnlyAfterTransportFailure ==
    \A t \in TaskIds :
        /\ tasks[t].pc = "sleeping" => tasks[t].log \in {"timed out", "failed"}
        /\ GotResponse(t) => LoopDone(t) /\ tasks[t].success

\* an attempt of task t raised an error other than a timeout or a request
\* error
Aborted(t) == tasks[t].log = "Unexpected error"

\* task t was the only task of its feed name in the cycle
Sole(t) == TasksOf(t[2]) = {t}

(* C22: when an attempt of a feed task raises an error that is neither a   *)
(* timeout nor a request error, the task makes no further attempt and no   *)
(* retry wait, and the feed is recorded as failed by one metrics update    *)
(* (seen in the record when no other task of that name ran in the cycle).  *)
C22_UnexpectedErrorAbortsRetries ==
    \A t \in TaskIds :
        Aborted(t) =>
            /\ LoopDone(t)
            /\ ~tasks[t].success
            /\ tasks[t].pc = "m_check" =>
                  /\ tasks[t].attempts = tasks[t].attempt + 1
                  /\ tasks[t].sleeps = tasks[t].attempt
            /\ Idle /\ Sole(t) =>
                  /\ Growth(t[2], "total_requests") = 1
                  /\ Growth(t[2], "failed_requests") = 1
                  /\ Growth(t[2], "successful_requests") = 0

\* a cycle returned after the only task of a name was aborted by an
\* unexpected error
C22_Witness ==
    /\ Idle
    /\ \E t \in TaskIds :
          Aborted(t) /\ Collected(t) /\ Sole(t) /\ Growth(t[2], "failed_requests") = 1

\* the chains of redirects from url that end at an address answering with
\* a status
Trails(w, url) ==
    {p \in Seqs(DOMAIN w, Cardinality(DOMAIN w)) :
        /\ p # <<>>
        /\ p[1] = url
        /\ \A i \in 1..(Len(p) - 1) : w[p[i]].kind = "redirect" /\ w[p[i]].to = p[i + 1]
        /\ w[p[Len(p)]].kind = "status"}

HasScheme(url) == Prefix(url, 7) = "http://" \/ Prefix(url, 8) = "https://"

\* the address that answered 200 to the probe of url, if one did
Answering(w, url) == {p[Len(p)] : p \in {q \in Trails(w, url) : w[q[Len(q)]].code = 200}}

OnList(list, c, n) == n \in Range(last_run.report[list][c])

(* C23: the validation outcome of each feed: a URL without http:// or      *)
(* https:// is invalid; a probe answered 200 at the stored URL is valid    *)
(* with no update; a probe answered 200 at another URL is valid and        *)
(* updated, the stored URL rewritten to that URL; any other status, a      *)
(* timeout or a network error is invalid, the stored URL unchanged.        *)
C23_ValidationOutcome ==
    last_run.ran =>
        \A cn \in FeedsOf(last_run.before) :
            LET c     == cn[1]
                n     == cn[2]
                old   == last_run.before[c][n].url
                new   == last_run.after[c][n].url
                final == IF HasScheme(old) THEN Answering(web, old) ELSE {}
            IN  /\ final = {} =>
                      /\ OnList("invalid", c, n) /\ ~OnList("valid", c, n)
                      /\ ~OnList("updated", c, n) /\ new = old
                /\ final = {old} =>
                      /\ OnList("valid", c, n) /\ ~OnList("invalid", c, n)
                      /\ ~OnList("updated", c, n) /\ new = old
                /\ final # {} /\ final # {old} =>
                      /\ OnList("valid", c, n) /\ ~OnList("invalid", c, n)
                      /\ OnList("updated", c, n) /\ final = {new}
                /\ rss_feeds[c][n].url = new

\* one run met a feed without scheme, a feed answered with another status
\* and a redirected feed
C23_Witness ==
    /\ last_run.ran
    /\ \E cn \in FeedsOf(last_run.before) : ~HasScheme(last_run.before[cn[1]][cn[2]].url)
    /\ \E cn \in FeedsOf(last_run.before) :
          /\ HasScheme(last_run.before[cn[1]][cn[2]].url)
          /\ Trails(web, last_run.before[cn[1]][cn[2]].url) # {}
          /\ Answering(web, last_run.before[cn[1]][cn[2]].url) = {}
    /\ \E cn \in FeedsOf(last_run.before) : OnList("updated", cn[1], cn[2])

\* the feeds the last validation run flagged updated
UpdatedFeeds(run) ==
    {cn \in FeedsOf(run.before) : cn[2] \in Range(run.report.updated[cn[1]])}

(* C24: a validation run writes the registry to its store exactly once,    *)
(* after the last feed was probed, when at least one feed was flagged      *)
(* updated, and does not write it at all when no feed was flagged updated. *)
C24_RegistryWrittenOncePerRun ==
    [][last_run'.ran =>
          /\ UpdatedFeeds(last_run') # {} =>
                /\ feeds_writes' = feeds_writes + 1
                /\ last_run'.wrote
                /\ last_run'.stored => feeds_file' = last_run'.after
          /\ UpdatedFeeds(last_run') = {} =>
                /\ feeds_writes' = feeds_writes
                /\ ~last_run'.wrote
                /\ feeds_file' = feeds_file]_vars

\* a run flagged two feeds updated and wrote the registry once
C24_Witness ==
    /\ last_run.ran
    /\ Cardinality(UpdatedFeeds(last_run)) >= 2
    /\ feeds_writes = 1
    /\ last_run.stored
    /\ feeds_file = rss_feeds

\* task t has left _crawl_single_feed and its list was merged
Settled(t) == tasks[t].pc \in {"none", "collected"}

(* C25: a crawl cycle sorts the merged entries, persists the metrics and   *)
(* the dedup store and returns only after every dispatched feed task has   *)
(* ended: no metrics update and no entries of a feed task arrive after the *)
(* metrics were persisted or the result was sorted.                        *)
C25_ReturnAfterAllTasks ==
    /\ main = "idle" => \A t \in TaskIds : Settled(t)
    /\ Idle =>
          /\ metrics_file = MetricsOf(feed_metrics, heap)
          /\ hash_file = _save_hashes(news_hashes, now)
          /\ result = SortByPublishedDesc(all_entries)
          /\ \A t \in TaskIds :
                \A i \in 1..Len(tasks[t].news_items) :
                    \E j \in 1..Len(result) : result[j] = tasks[t].news_items[i]

\* a cycle with two feed tasks returned their entries and wrote the metrics
C25_Witness ==
    /\ Idle
    /\ Cardinality({t \in TaskIds : Collected(t)}) = 2
    /\ Len(result) = 2
    /\ DOMAIN metrics_file # {}

\* task t holds a worker of the pool: it fetches, waits for its retry or
\* updates the metrics
Busy(t) == t \in Running(tasks)

(* C26: at every moment of a crawl cycle at most max_workers feed tasks    *)
(* are fetching or waiting for a retry; the other dispatched tasks stay    *)
(* pending until a worker is free.                                         *)
C26_PoolBound ==
    /\ Cardinality({t \in TaskIds : Busy(t)}) <= self_max_workers
    /\ Cardinality({t \in TaskIds : tasks[t].pc \in {"fetching", "sleeping"}})
           <= self_max_workers

\* the only worker is taken and a dispatched task waits
C26_Witness ==
    /\ self_max_workers = 1
    /\ \E t \in TaskIds : tasks[t].pc = "sleeping"
    /\ \E t \in TaskIds : tasks[t].pc = "pending"

\* the first max_items_per_feed items of task t
Kept(t) ==
    LET items == tasks[t].news_items
        cap   == cycle.max_items_per_feed
    IN  [i \in 1..(IF Len(items) < cap THEN Len(items) ELSE cap) |-> items[i]]

Count(seq, x) == Cardinality({i \in 1..Len(seq) : seq[i] = x})

(* C27: with a positive cap max_items_per_feed the returned list holds at  *)
(* most that many entries of any feed task, and they are the first         *)
(* accepted entries of the feed, in the order of the feed.                 *)
C27_CapPerFeed ==
    Idle /\ cycle.max_items_per_feed > 0 =>
        /\ \A x \in Range(result) \cup UNION {Range(tasks[t].news_items) : t \in TaskIds} :
              Count(result, x)
                  = Cardinality({ti \in TaskIds \X (1..cycle.max_items_per_feed) :
                                    ti[2] <= Len(Kept(ti[1])) /\ Kept(ti[1])[ti[2]] = x})
        /\ \A t \in TaskIds :
              Cardinality({j \in 1..Len(result) : result[j] \in Range(tasks[t].news_items)})
                  <= cycle.max_items_per_feed

\* a feed gave two accepted entries; the first is in the returned list, the
\* second is not
C27_Witness ==
    /\ Idle
    /\ cycle.max_items_per_feed = 1
    /\ \E t \in TaskIds :
          /\ Len(tasks[t].news_items) = 2
          /\ tasks[t].news_items[1] \in Range(result)
          /\ tasks[t].news_items[2] \notin Range(result)

(* C28: every validation report partitions the registry: each feed of     *)
(* each category is exactly once in the valid or in the invalid list of    *)
(* its category, never in both, and every feed of the updated list is in   *)
(* the valid list of the same category.                                    *)
C28_ReportPartitionsRegistry ==
    last_run.ran =>
        LET report == last_run.report
        IN  /\ \A list \in {"valid", "invalid", "updated"} :
                  /\ DOMAIN report[list] = DOMAIN last_run.before
                  /\ \A c \in DOMAIN last_run.before :
                        Range(report[list][c]) \subseteq DOMAIN last_run.before[c]
            /\ \A c \in DOMAIN last_run.before :
                  /\ \A n \in DOMAIN last_run.before[c] :
                        Count(report.valid[c], n) + Count(report.invalid[c], n) = 1
                  /\ \A n \in Range(report.updated[c]) :
                        Count(report.updated[c], n) = 1 /\ Count(report.valid[c], n) = 1

\* a report with a valid feed, an invalid feed and an updated feed
C28_Witness ==
    /\ last_run.ran
    /\ \E c \in DOMAIN last_run.report.valid :
          Len(last_run.report.valid[c]) = 2 /\ Len(last_run.report.updated[c]) = 1
    /\ \E c \in DOMAIN last_run.report.invalid : last_run.report.invalid[c] # <<>>

(* C29: after any sequence of feed-task completions every metrics record   *)
(* has total_requests = successful_requests + failed_requests: with no     *)
(* update under way, the three counters of each record agree.              *)
C29_RequestsAreSuccessesPlusFailures ==
    main = "idle" =>
        \A n \in DOMAIN feed_metrics :
            Record(n).total_requests
                = Record(n).successful_requests + Record(n).failed_requests

(* C30: when every request returns or times out, a dispatched feed task    *)
(* makes at most max_retries attempts and at most max_retries - 1 retry    *)
(* waits and then ends, so that each task of a cycle is eventually handed  *)
(* over to the main thread and the cycle returns.                          *)
C30_TasksEndWithinRetries ==
    /\ [](\A t \in TaskIds : /\ tasks[t].attempts <= max_retries
                             /\ tasks[t].sleeps <= max_retries - 1
                             /\ tasks[t].sleeps <= tasks[t].attempts)
    /\ \A t \in TaskIds :
          (main = "running" /\ Dispatched(t)) ~> (Collected(t) /\ Idle)

\* the loop of a task has just ended after max_retries attempts that failed
\* on the network, with max_retries - 1 waits between them
C30_Witness ==
    \E t \in TaskIds :
        /\ tasks[t].pc = "m_check" /\ tasks[t].log = "failed"
        /\ tasks[t].attempts = max_retries
        /\ tasks[t].sleeps = max_retries - 1

====
